---- MODULE Spec2Model ----
(***************************************************************************)
(* tie-domain-age-analyzer (src/main.py): a command-line program that      *)
(* validates a domain, asks WHOIS for its creation date and prints its age *)
(* in days, then asks the Wayback Machine availability API for the closest *)
(* snapshot and prints its URL.                                            *)
(*                                                                         *)
(* The WHOIS registry, the wall clock and the archive's HTTP endpoint are  *)
(* the environment: what they answer is drawn from bounded sets and the    *)
(* code's reaction to each answer is modelled branch by branch, including  *)
(* the branches taken because a Python operation raises.                   *)
(***************************************************************************)
EXTENDS Integers, Sequences, FiniteSets, TLC

VARIABLES
    domain,              \* args.domain / the argument handed to a function
    whois_env,           \* what whois.whois(domain) does in this run
    clock,               \* what datetime.now() returns in this run
    http_env,            \* what requests.get(url) does in this run
    pc,                  \* position of the run
    valid,               \* result of is_valid_domain(domain)
    domain_age,          \* result of get_domain_age(domain)
    oldest_wayback_url,  \* result of check_wayback_machine(domain)
    stdout,              \* lines printed, in order
    net,                 \* network calls issued, in order
    log,                 \* records handed to logging, in order
    raised,              \* whether an exception left the function called last
    exit_code,           \* <<>> while running, <<status>> once the process ended
    prev                 \* what an earlier run on the same domain printed and issued

vars == <<domain, whois_env, clock, http_env, pc, valid, domain_age,
          oldest_wayback_url, stdout, net, log, raised, exit_code, prev>>

(***************************************************************************)
(* Bounds of the model.                                                    *)
(***************************************************************************)
MaxLen == 2          \* longest domain string, in symbols
MaxTick == 3         \* clock readings and creation dates range over 0..MaxTick
TicksPerDay == 2     \* clock ticks in one day

(***************************************************************************)
(* Python values.  Every value is a record of the same shape so that any   *)
(* two can be compared: t is the type, n the number (int, bool, the tick   *)
(* of a datetime), s the symbols of a str, k and l the keys and the values *)
(* of a dict (l alone: the items of a list).                               *)
(***************************************************************************)
PyVal(t, n, s, k, l) == [t |-> t, n |-> n, s |-> s, k |-> k, l |-> l]

None == PyVal("NoneType", 0, <<>>, <<>>, <<>>)

Unset == PyVal("unset", 0, <<>>, <<>>, <<>>)

PyInt(n) == PyVal("int", n, <<>>, <<>>, <<>>)

PyBool(b) == PyVal("bool", IF b THEN 1 ELSE 0, <<>>, <<>>, <<>>)

PyStr(s) == PyVal("str", 0, s, <<>>, <<>>)

PyList(l) == PyVal("list", 0, <<>>, <<>>, l)

PyDict(k, l) == PyVal("dict", 0, <<>>, k, l)

\* a timezone-naive datetime, as datetime.now() returns
Naive(tick) == PyVal("datetime", tick, <<>>, <<>>, <<>>)

\* a timezone-aware datetime
Aware(tick) == PyVal("datetime_tz", tick, <<>>, <<>>, <<>>)

\* bool(v): None, 0, False and empty str/list/dict are falsy; a datetime is truthy
Truthy(v) ==
    CASE v.t = "NoneType" -> FALSE
      [] v.t \in {"int", "bool"} -> v.n # 0
      [] v.t = "str" -> v.s # <<>>
      [] v.t = "list" -> v.l # <<>>
      [] v.t = "dict" -> v.k # <<>>
      [] OTHER -> TRUE

\* `key in v` raises TypeError unless v is a container
ContainsRaises(v) == v.t \notin {"str", "list", "dict"}

\* `key in v` for a one-symbol key: a symbol of a str, an item of a list, a key of a dict
Contains(v, key) ==
    CASE v.t = "str" -> \E i \in 1..Len(v.s) : v.s[i] = key
      [] v.t = "list" -> \E i \in 1..Len(v.l) : v.l[i] = PyStr(<<key>>)
      [] v.t = "dict" -> \E i \in 1..Len(v.k) : v.k[i] = key
      [] OTHER -> FALSE

\* v[key] with a str key raises TypeError on a non-dict and KeyError on a missing key
GetItemRaises(v, key) == v.t # "dict" \/ ~Contains(v, key)

GetItem(v, key) == v.l[CHOOSE i \in 1..Len(v.k) : v.k[i] = key]

\* a - b for a naive datetime a raises TypeError unless b is a naive datetime too
SubRaises(b) == b.t # "datetime"

\* faulty variant of timedelta_days: a started day counts as a whole one
timedelta_days_rounded_up(a, b) == 0 - ((b.n - a.n) \div TicksPerDay)

\* (a - b).days: timedelta normalises to days + a non-negative remainder, so
\* .days is the floor of the difference in days, also when it is negative
timedelta_days(a, b) == (a.n - b.n) \div TicksPerDay

LogRec(level, msg) == [level |-> level, msg |-> msg]

\* what a call hands back: its return value, what it logged, what it sent
\* over the network, and whether an exception left the function
Result(ret, lg, calls) == [ret |-> ret, log |-> lg, net |-> calls, raised |-> FALSE]

Raised(lg, calls) == [ret |-> Unset, log |-> lg, net |-> calls, raised |-> TRUE]

(***************************************************************************)
(* The environment.                                                        *)
(***************************************************************************)
\* symbols a str is made of: a letter, a space, other whitespace
Chars == {"a", " ", "\t"}

\* every str of at most MaxLen symbols, the empty one included
Strings == {PyStr(s) : s \in UNION {[1..n -> Chars] : n \in 0..MaxLen}}

\* values that are not str
NonStrings == {None, PyInt(0), PyInt(1), PyList(<<>>), PyList(<<PyStr(<<" ">>)>>)}

Ticks == 0..MaxTick

Dates == {Naive(t) : t \in Ticks}

\* what a WHOIS record holds as (an element of) creation_date: nothing, a
\* parsed date without or with a timezone, or the registry's text left unparsed
DateValues == Dates \cup {None, Aware(0), PyStr(<<>>), PyStr(<<"a">>)}

LaterDates == {None, Naive(0), Naive(MaxTick)}

CreationDates ==
    DateValues
    \cup {PyList(<<>>)}
    \cup {PyList(<<a>>) : a \in DateValues}
    \cup {PyList(<<a, b>>) : a \in DateValues, b \in LaterDates}

WhoisEnv(outcome, creation_date) == [outcome |-> outcome, creation_date |-> creation_date]

\* whois.whois(domain) returns a record, raises the parser's PywhoisError, or
\* raises something else (a socket error, say)
WhoisEnvs ==
    {WhoisEnv("record", cd) : cd \in CreationDates}
    \cup {WhoisEnv("PywhoisError", None), WhoisEnv("Exception", None)}

NoWhois == WhoisEnv("unused", None)

AS == "archived_snapshots"

Urls == {PyStr(<<>>), PyStr(<<"a">>)}

Snapshot(url) == PyDict(<<AS>>, <<PyDict(<<"closest">>, <<PyDict(<<"url">>, <<url>>)>>)>>)

\* JSON documents the endpoint may answer with
Bodies ==
    {Snapshot(u) : u \in Urls \cup {None}}
    \cup { PyDict(<<>>, <<>>),
           PyDict(<<"other">>, <<PyInt(1)>>),
           PyDict(<<AS>>, <<PyDict(<<>>, <<>>)>>),
           PyDict(<<AS>>, <<None>>),
           PyDict(<<AS>>, <<PyDict(<<"other">>, <<PyInt(1)>>)>>),
           PyDict(<<AS>>, <<PyDict(<<"closest">>, <<PyDict(<<>>, <<>>)>>)>>),
           PyDict(<<AS>>, <<PyDict(<<"closest">>, <<None>>)>>),
           PyDict(<<AS>>, <<PyList(<<PyStr(<<"closest">>)>>)>>),
           PyList(<<>>),
           PyList(<<PyStr(<<AS>>)>>),
           PyStr(<<AS>>),
           PyInt(0),
           PyInt(1),
           None }

HttpEnv(outcome, status, json, data) ==
    [outcome |-> outcome, status |-> status, json |-> json, data |-> data]

\* requests.get(url) raises (no connection) or returns a response with a
\* status and a body; a body that is not JSON makes response.json() raise
\* requests' JSONDecodeError (a RequestException) or, with an older requests,
\* a plain ValueError
HttpEnvs ==
    {HttpEnv("ConnectionError", 0, "ok", None)}
    \cup {HttpEnv("response", 200, "ok", b) : b \in Bodies}
    \cup {HttpEnv("response", 200, j, None) : j \in {"JSONDecodeError", "ValueError"}}
    \cup {HttpEnv("response", st, "ok", b) :
            st \in {301, 404, 500}, b \in {PyDict(<<>>, <<>>), Snapshot(PyStr(<<"a">>))}}

NoHttp == HttpEnv("unused", 0, "ok", None)

(***************************************************************************)
(* The functions of main.py.                                               *)
(***************************************************************************)
\* faulty variant of is_valid_domain: the test for a space is missing
is_valid_domain_no_space_check(d) ==
    IF d.t # "str"
    THEN Result(PyBool(FALSE), <<LogRec("ERROR", "Invalid input: Domain must be a string.")>>, <<>>)
    ELSE IF ~Truthy(d)
    THEN Result(PyBool(FALSE), <<LogRec("ERROR", "Invalid input: Domain cannot be empty.")>>, <<>>)
    ELSE Result(PyBool(TRUE), <<>>, <<>>)

\* faulty variant of is_valid_domain: the isinstance test is missing
is_valid_domain_no_type_check(d) ==
    IF ~Truthy(d)
    THEN Result(PyBool(FALSE), <<LogRec("ERROR", "Invalid input: Domain cannot be empty.")>>, <<>>)
    ELSE IF ContainsRaises(d)
    THEN Raised(<<>>, <<>>)
    ELSE IF Contains(d, " ")
    THEN Result(PyBool(FALSE), <<LogRec("ERROR", "Invalid input: Domain cannot contain spaces.")>>, <<>>)
    ELSE Result(PyBool(TRUE), <<>>, <<>>)

is_valid_domain(d) ==
    IF d.t # "str"
    THEN Result(PyBool(FALSE), <<LogRec("ERROR", "Invalid input: Domain must be a string.")>>, <<>>)
    ELSE IF ~Truthy(d)
    THEN Result(PyBool(FALSE), <<LogRec("ERROR", "Invalid input: Domain cannot be empty.")>>, <<>>)
    ELSE IF ContainsRaises(d)
    THEN Raised(<<>>, <<>>)
    ELSE IF Contains(d, " ")
    THEN Result(PyBool(FALSE), <<LogRec("ERROR", "Invalid input: Domain cannot contain spaces.")>>, <<>>)
    ELSE Result(PyBool(TRUE), <<>>, <<>>)

WhoisCall(d) == [call |-> "whois", arg |-> <<d>>]

\* faulty variant of age_unexpected: no `except Exception`, the error leaves the function
age_unexpected_propagates(d) == Raised(<<>>, <<WhoisCall(d)>>)

\* the handler of `except Exception` in get_domain_age
age_unexpected(d) ==
    Result(None,
           <<LogRec("ERROR", "An unexpected error occurred while fetching WHOIS data")>>,
           <<WhoisCall(d)>>)

\* faulty variant of first_creation_date: the last element of a list is taken
last_creation_date(cd) == IF cd.t = "list" THEN cd.l[Len(cd.l)] ELSE cd

\* creation_date[0] if it is a list, else creation_date (reached with a truthy value only)
first_creation_date(cd) == IF cd.t = "list" THEN cd.l[1] ELSE cd

get_domain_age(d, w, now) ==
    IF w.outcome = "PywhoisError"
    THEN Result(None, <<LogRec("ERROR", "WHOIS query failed")>>, <<WhoisCall(d)>>)
    ELSE IF w.outcome # "record"
    THEN age_unexpected(d)
    ELSE IF ~Truthy(w.creation_date)
    THEN Result(None, <<LogRec("WARNING", "No creation date found in WHOIS data")>>,
                <<WhoisCall(d)>>)
    ELSE LET creation_date == first_creation_date(w.creation_date) IN
         IF ~Truthy(creation_date)
         THEN Result(None, <<LogRec("WARNING", "Could not determine creation date")>>,
                     <<WhoisCall(d)>>)
         ELSE IF SubRaises(creation_date)
         THEN age_unexpected(d)
         ELSE Result(PyInt(timedelta_days(now, creation_date)),
                     <<LogRec("INFO", "Domain creation date")>>, <<WhoisCall(d)>>)

\* f"http://archive.org/wayback/available?url={domain}": the domain goes in verbatim
wayback_url(d) == <<"http://archive.org/wayback/available?url=">> \o d.s

HttpCall(d) == [call |-> "GET", arg |-> wayback_url(d)]

\* response.raise_for_status(): HTTPError for a 4xx or a 5xx status
raise_for_status(status) == 400 <= status /\ status < 600

\* faulty variant of wayback_request_failed: no handler for RequestException
wayback_request_failed_propagates(d) == Raised(<<>>, <<HttpCall(d)>>)

\* the handler of `except requests.exceptions.RequestException`
wayback_request_failed(d) ==
    Result(None, <<LogRec("ERROR", "Error accessing Wayback Machine")>>, <<HttpCall(d)>>)

\* faulty variant of wayback_unexpected: no `except Exception`
wayback_unexpected_propagates(d) == Raised(<<>>, <<HttpCall(d)>>)

\* the handler of `except Exception` in check_wayback_machine
wayback_unexpected(d) ==
    Result(None,
           <<LogRec("ERROR", "An unexpected error occurred while checking the Wayback Machine")>>,
           <<HttpCall(d)>>)

wayback_not_found(d) ==
    Result(None, <<LogRec("INFO", "Domain not found in the Wayback Machine.")>>, <<HttpCall(d)>>)

\* faulty variant of read_snapshot: the closest record is returned, not its url
read_snapshot_returns_closest(d, data) ==
    IF ~Truthy(data) THEN wayback_not_found(d)
    ELSE IF ContainsRaises(data) THEN wayback_unexpected(d)
    ELSE IF ~Contains(data, AS) THEN wayback_not_found(d)
    ELSE IF GetItemRaises(data, AS) THEN wayback_unexpected(d)
    ELSE LET snapshots == GetItem(data, AS) IN
         IF ~Truthy(snapshots) THEN wayback_not_found(d)
         ELSE IF ContainsRaises(snapshots) THEN wayback_unexpected(d)
         ELSE IF ~Contains(snapshots, "closest")
         THEN Result(None, <<LogRec("WARNING", "No archived snapshots found")>>, <<HttpCall(d)>>)
         ELSE IF GetItemRaises(snapshots, "closest") THEN wayback_unexpected(d)
         ELSE Result(GetItem(snapshots, "closest"),
                     <<LogRec("INFO", "Oldest Wayback Machine URL")>>, <<HttpCall(d)>>)

\* lines 70-80, on the parsed JSON: `and` stops at the first falsy operand,
\* and a TypeError or KeyError on the way goes to `except Exception`
read_snapshot(d, data) ==
    IF ~Truthy(data) THEN wayback_not_found(d)
    ELSE IF ContainsRaises(data) THEN wayback_unexpected(d)
    ELSE IF ~Contains(data, AS) THEN wayback_not_found(d)
    ELSE IF GetItemRaises(data, AS) THEN wayback_unexpected(d)
    ELSE LET snapshots == GetItem(data, AS) IN
         IF ~Truthy(snapshots) THEN wayback_not_found(d)
         ELSE IF ContainsRaises(snapshots) THEN wayback_unexpected(d)
         ELSE IF ~Contains(snapshots, "closest")
         THEN Result(None, <<LogRec("WARNING", "No archived snapshots found")>>, <<HttpCall(d)>>)
         ELSE IF GetItemRaises(snapshots, "closest") THEN wayback_unexpected(d)
         ELSE LET closest == GetItem(snapshots, "closest") IN
              IF GetItemRaises(closest, "url") THEN wayback_unexpected(d)
              ELSE Result(GetItem(closest, "url"),
                          <<LogRec("INFO", "Oldest Wayback Machine URL")>>, <<HttpCall(d)>>)

check_wayback_machine(d, h) ==
    IF h.outcome # "response" THEN wayback_request_failed(d)
    ELSE IF raise_for_status(h.status) THEN wayback_request_failed(d)
    ELSE IF h.json = "JSONDecodeError" THEN wayback_request_failed(d)
    ELSE IF h.json # "ok" THEN wayback_unexpected(d)
    ELSE read_snapshot(d, h.data)

\* the lines main prints
Line(fmt, d, arg) == [fmt |-> fmt, domain |-> d, arg |-> arg]

age_line(d, age) ==
    IF age # None
    THEN Line("Domain {domain} is {domain_age} days old.", d, age)
    ELSE Line("Could not determine the age of domain {domain}.", d, None)

wayback_line(d, url) ==
    IF Truthy(url)
    THEN Line("Oldest Wayback Machine URL for {domain}: {oldest_wayback_url}", d, url)
    ELSE Line("Domain {domain} not found in the Wayback Machine.", d, None)

(***************************************************************************)
(* main(): one run of the program.  args.domain is the string the command  *)
(* line gave, or any value when the argument parser is stubbed.  The -v    *)
(* flag only changes which log records are shown and is left out; log      *)
(* holds every record handed to logging.                                   *)
(***************************************************************************)
NoPrev == [same |-> "none", stdout |-> <<>>, net |-> <<>>]

Fresh ==
    /\ pc = "start"
    /\ valid = Unset
    /\ domain_age = Unset
    /\ oldest_wayback_url = Unset
    /\ stdout = <<>>
    /\ net = <<>>
    /\ log = <<>>
    /\ raised = FALSE
    /\ exit_code = <<>>

Init ==
    /\ domain \in Strings \cup NonStrings
    /\ whois_env \in WhoisEnvs
    /\ clock \in Ticks
    /\ http_env \in HttpEnvs
    /\ prev = NoPrev
    /\ Fresh

\* an exception nobody catches ends the process with a traceback and status 1
crash ==
    /\ pc' = "crashed"
    /\ exit_code' = <<1>>

\* line 128: `if not is_valid_domain(domain)`
rejects(ret) == ~Truthy(ret)

\* lines 126-129: validate, and sys.exit(1) on a domain that fails
main_validate ==
    /\ pc = "start"
    /\ LET r == is_valid_domain(domain) IN
         /\ valid' = r.ret
         /\ log' = log \o r.log
         /\ net' = net \o r.net
         /\ raised' = r.raised
         /\ IF r.raised THEN crash
            ELSE IF rejects(r.ret)
            THEN pc' = "exited" /\ exit_code' = <<1>>
            ELSE pc' = "age" /\ exit_code' = exit_code
    /\ UNCHANGED <<domain, whois_env, clock, http_env, domain_age, oldest_wayback_url,
                   stdout, prev>>

\* lines 131-135: the age query and its line
main_age ==
    /\ pc = "age"
    /\ LET r == get_domain_age(domain, whois_env, Naive(clock)) IN
         /\ domain_age' = r.ret
         /\ log' = log \o r.log
         /\ net' = net \o r.net
         /\ raised' = r.raised
         /\ IF r.raised THEN crash /\ stdout' = stdout
            ELSE /\ stdout' = Append(stdout, age_line(domain, r.ret))
                 /\ pc' = "wayback"
                 /\ exit_code' = exit_code
    /\ UNCHANGED <<domain, whois_env, clock, http_env, valid, oldest_wayback_url, prev>>

\* faulty variant of main_wayback: without an age the archive is not asked
main_wayback_needs_age ==
    /\ pc = "wayback"
    /\ LET r == IF domain_age = None
                THEN Result(None, <<>>, <<>>)
                ELSE check_wayback_machine(domain, http_env) IN
         /\ oldest_wayback_url' = r.ret
         /\ log' = log \o r.log
         /\ net' = net \o r.net
         /\ raised' = r.raised
         /\ IF r.raised THEN crash /\ stdout' = stdout
            ELSE /\ stdout' = Append(stdout, wayback_line(domain, r.ret))
                 /\ pc' = "done"
                 /\ exit_code' = <<0>>
    /\ UNCHANGED <<domain, whois_env, clock, http_env, valid, domain_age, prev>>

\* lines 137-141: the archive query and its line; main returns, the process ends with 0
main_wayback ==
    /\ pc = "wayback"
    /\ LET r == check_wayback_machine(domain, http_env) IN
         /\ oldest_wayback_url' = r.ret
         /\ log' = log \o r.log
         /\ net' = net \o r.net
         /\ raised' = r.raised
         /\ IF r.raised THEN crash /\ stdout' = stdout
            ELSE /\ stdout' = Append(stdout, wayback_line(domain, r.ret))
                 /\ pc' = "done"
                 /\ exit_code' = <<0>>
    /\ UNCHANGED <<domain, whois_env, clock, http_env, valid, domain_age, prev>>

Next == main_validate \/ main_age \/ main_wayback

Spec == Init /\ [][Next]_vars

(***************************************************************************)
(* The functions called on their own, each on every input of its bounded   *)
(* set, non-string arguments included for is_valid_domain.                 *)
(***************************************************************************)
InitFn ==
    /\ domain \in Strings \cup NonStrings
    /\ \/ whois_env \in WhoisEnvs /\ clock \in Ticks /\ http_env = NoHttp
       \/ whois_env = NoWhois /\ clock = 0 /\ http_env \in HttpEnvs
    /\ prev = NoPrev
    /\ Fresh

call_is_valid_domain ==
    /\ pc = "start"
    /\ LET r == is_valid_domain(domain) IN
         /\ valid' = r.ret
         /\ log' = r.log
         /\ net' = r.net
         /\ raised' = r.raised
    /\ pc' = "returned is_valid_domain"
    /\ UNCHANGED <<domain, whois_env, clock, http_env, domain_age, oldest_wayback_url,
                   stdout, exit_code, prev>>

call_get_domain_age ==
    /\ pc = "start"
    /\ domain.t = "str"
    /\ whois_env # NoWhois
    /\ LET r == get_domain_age(domain, whois_env, Naive(clock)) IN
         /\ domain_age' = r.ret
         /\ log' = r.log
         /\ net' = r.net
         /\ raised' = r.raised
    /\ pc' = "returned get_domain_age"
    /\ UNCHANGED <<domain, whois_env, clock, http_env, valid, oldest_wayback_url,
                   stdout, exit_code, prev>>

call_check_wayback_machine ==
    /\ pc = "start"
    /\ domain.t = "str"
    /\ http_env # NoHttp
    /\ LET r == check_wayback_machine(domain, http_env) IN
         /\ oldest_wayback_url' = r.ret
         /\ log' = r.log
         /\ net' = r.net
         /\ raised' = r.raised
    /\ pc' = "returned check_wayback_machine"
    /\ UNCHANGED <<domain, whois_env, clock, http_env, valid, domain_age,
                   stdout, exit_code, prev>>

NextFn == call_is_valid_domain \/ call_get_domain_age \/ call_check_wayback_machine

SpecFn == InitFn /\ [][NextFn]_vars

(***************************************************************************)
(* Two runs on the same domain, one after the other, reading the same      *)
(* clock.  The second run finds either the same archive answer and any     *)
(* WHOIS answer, or the same WHOIS answer and any archive answer; prev     *)
(* keeps what the first run printed and sent.                              *)
(***************************************************************************)
rerun ==
    /\ pc = "done"
    /\ prev = NoPrev
    /\ \E same \in {"http", "whois"} :
         /\ prev' = [same |-> same, stdout |-> stdout, net |-> net]
         /\ IF same = "http"
            THEN /\ http_env' = http_env
                 /\ whois_env' \in WhoisEnvs
            ELSE /\ http_env' \in HttpEnvs
                 /\ whois_env' = whois_env
    /\ domain' = domain
    /\ clock' = clock
    /\ pc' = "start"
    /\ valid' = Unset
    /\ domain_age' = Unset
    /\ oldest_wayback_url' = Unset
    /\ stdout' = <<>>
    /\ net' = <<>>
    /\ log' = <<>>
    /\ raised' = FALSE
    /\ exit_code' = <<>>

NextPair == main_validate \/ main_age \/ main_wayback \/ rerun

\* the pair of runs is given a domain of at most one symbol
InitPair == Init /\ domain.t = "str" /\ Len(domain.s) <= 1

SpecPair == InitPair /\ [][NextPair]_vars

(***************************************************************************)
(* Properties.                                                             *)
(***************************************************************************)
\* a domain that must fail validation: not a str, empty, or holding a space
Invalid(d) == d.t # "str" \/ d.s = <<>> \/ \E i \in 1..Len(d.s) : d.s[i] = " "

AgeFormats ==
    {"Domain {domain} is {domain_age} days old.",
     "Could not determine the age of domain {domain}."}

WaybackFormats ==
    {"Oldest Wayback Machine URL for {domain}: {oldest_wayback_url}",
     "Domain {domain} not found in the Wayback Machine."}

\* C1: a run of main on a domain that fails validation (not a string, empty,
\* or containing a space) ends at validation with exit status 1 and has
\* issued no network call, neither the WHOIS lookup nor the HTTP GET.
C1_InvalidDomainExitsWithoutNetwork ==
    (Invalid(domain) /\ pc # "start") =>
        /\ pc = "exited"
        /\ exit_code = <<1>>
        /\ net = <<>>

C1_Witness ==
    /\ pc = "exited"
    /\ domain = PyStr(<<"a", " ">>)
    /\ exit_code = <<1>>

\* C2: once validation has passed nothing is fatal: whatever the WHOIS
\* lookup and the HTTP request do, the run never exits early or crashes, it
\* can always take its next step until it is done, and when done it has
\* exit status 0 and has printed exactly two lines, the age line first and
\* the archive line second.
C2_NoFatalErrorAfterValidation ==
    (~Invalid(domain)) =>
        /\ pc \in {"start", "age", "wayback", "done"}
        /\ pc # "done" => ENABLED Next
        /\ pc = "done" =>
             /\ exit_code = <<0>>
             /\ Len(stdout) = 2
             /\ stdout[1].fmt \in AgeFormats
             /\ stdout[2].fmt \in WaybackFormats

C2_Witness ==
    /\ pc = "done"
    /\ whois_env.outcome = "Exception"
    /\ http_env.outcome = "response"
    /\ http_env.json = "ValueError"
    /\ exit_code = <<0>>
    /\ Len(stdout) = 2

\* C3: of two runs on the same domain, the second one meeting the same
\* archive answer issues the same HTTP GET and prints the same archive line
\* as the first whatever the two WHOIS answers were, and the second one
\* meeting the same WHOIS answer prints the same age line as the first
\* whatever the two archive answers were.
C3_QueriesAreIsolated ==
    (pc = "done" /\ prev # NoPrev) =>
        /\ prev.same = "http" =>
             /\ stdout[2] = prev.stdout[2]
             /\ \E i \in 1..Len(net) : net[i] = HttpCall(domain)
             /\ \E i \in 1..Len(prev.net) : prev.net[i] = HttpCall(domain)
        /\ prev.same = "whois" => stdout[1] = prev.stdout[1]

C3_Witness ==
    /\ pc = "done"
    /\ prev.same = "http"
    /\ whois_env.outcome = "PywhoisError"
    /\ prev.stdout[1].fmt = "Domain {domain} is {domain_age} days old."
    /\ stdout[2].fmt = "Oldest Wayback Machine URL for {domain}: {oldest_wayback_url}"

\* C4: when the WHOIS record's creation_date is a single timestamp T not
\* later than the clock reading (both without timezone, so that now - T is
\* defined), get_domain_age returns the whole number q of days with
\* q days <= now - T < q + 1 days, and main prints the "days old" line
\* carrying q.
C4_AgeIsFloorOfElapsedDays ==
    (/\ pc \in {"wayback", "done"}
     /\ whois_env.outcome = "record"
     /\ whois_env.creation_date \in Dates
     /\ whois_env.creation_date.n <= clock) =>
        LET elapsed == clock - whois_env.creation_date.n IN
        /\ domain_age.t = "int"
        /\ domain_age.n * TicksPerDay <= elapsed
        /\ elapsed < (domain_age.n + 1) * TicksPerDay
        /\ stdout[1] = Line("Domain {domain} is {domain_age} days old.", domain, domain_age)

C4_Witness ==
    /\ pc = "done"
    /\ whois_env = WhoisEnv("record", Naive(0))
    /\ clock = TicksPerDay + 1
    /\ domain_age = PyInt(1)
    /\ stdout[1] = Line("Domain {domain} is {domain_age} days old.", domain, PyInt(1))

\* C5: when creation_date is a list, get_domain_age uses its first element
\* only: a first element that is a date gives the age counted from that
\* date whatever follows it, and an empty list or a first element that is
\* null or otherwise unusable gives None even when a date follows.
C5_ListUsesFirstElementOnly ==
    (/\ pc = "returned get_domain_age"
     /\ whois_env.outcome = "record"
     /\ whois_env.creation_date.t = "list") =>
        LET items == whois_env.creation_date.l IN
        IF items # <<>> /\ items[1] \in Dates
        THEN domain_age = PyInt((clock - items[1].n) \div TicksPerDay)
        ELSE domain_age = None

C5_Witness ==
    /\ pc = "returned get_domain_age"
    /\ whois_env = WhoisEnv("record", PyList(<<Naive(MaxTick), Naive(0)>>))
    /\ clock = MaxTick
    /\ domain_age = PyInt(0)

\* C6: get_domain_age never lets an exception reach its caller, and a
\* parser failure of the lookup, a missing creation date and any other
\* error (of the lookup, or of the subtraction on a date with a timezone or
\* left as text) all give None.
C6_AgeFailuresCollapseToNone ==
    (pc = "returned get_domain_age") =>
        /\ ~raised
        /\ whois_env.outcome = "PywhoisError" => domain_age = None
        /\ whois_env.outcome = "Exception" => domain_age = None
        /\ whois_env.outcome = "record" =>
             LET cd == whois_env.creation_date
                 first == IF cd.t = "list" /\ cd.l # <<>> THEN cd.l[1] ELSE cd
             IN  /\ first \in {None, PyStr(<<>>), PyList(<<>>)} => domain_age = None
                 /\ first.t = "datetime_tz" => domain_age = None
                 /\ (first.t = "str" /\ first.s # <<>>) => domain_age = None

C6_Witness ==
    /\ pc = "returned get_domain_age"
    /\ whois_env = WhoisEnv("record", Aware(0))
    /\ domain_age = None
    /\ ~raised
    /\ log = <<LogRec("ERROR", "An unexpected error occurred while fetching WHOIS data")>>

\* the JSON document holds a non-empty archived_snapshots object with a closest key
HasClosest(data) ==
    /\ data.t = "dict"
    /\ \E i \in 1..Len(data.k) :
         /\ data.k[i] = AS
         /\ data.l[i].t = "dict"
         /\ \E j \in 1..Len(data.l[i].k) : data.l[i].k[j] = "closest"

\* the values found at archived_snapshots.closest.url
ClosestUrls(data) ==
    {u \in Urls \cup {None} : data = Snapshot(u)}

\* C7: for a response without an error status whose body parses as JSON,
\* check_wayback_machine returns archived_snapshots.closest.url when the
\* document holds a non-empty archived_snapshots object whose closest
\* member has a url, and returns None when archived_snapshots is missing,
\* empty, or has no closest key.
C7_ReturnsClosestUrlOrNone ==
    (/\ pc = "returned check_wayback_machine"
     /\ http_env.outcome = "response"
     /\ http_env.status < 400
     /\ http_env.json = "ok") =>
        /\ \A u \in ClosestUrls(http_env.data) : oldest_wayback_url = u
        /\ ~HasClosest(http_env.data) => oldest_wayback_url = None

C7_Witness ==
    /\ pc = "returned check_wayback_machine"
    /\ http_env = HttpEnv("response", 200, "ok", Snapshot(PyStr(<<"a">>)))
    /\ oldest_wayback_url = PyStr(<<"a">>)

\* C8: when the archive check fails (the request fails outright, the status
\* is a 4xx or 5xx, or the body is not JSON) check_wayback_machine raises
\* nothing and returns None, the value it returns for the document {}, and
\* what it logs differs from what it logs for {}.
C8_WaybackFailuresReturnNone ==
    (/\ pc = "returned check_wayback_machine"
     /\ \/ http_env.outcome = "ConnectionError"
        \/ http_env.status >= 400
        \/ http_env.json # "ok") =>
        LET empty == check_wayback_machine(domain, HttpEnv("response", 200, "ok", PyDict(<<>>, <<>>)))
        IN  /\ ~raised
            /\ oldest_wayback_url = None
            /\ oldest_wayback_url = empty.ret
            /\ log # empty.log
            /\ log[1].level = "ERROR"

C8_Witness ==
    /\ pc = "returned check_wayback_machine"
    /\ http_env.outcome = "response"
    /\ http_env.status = 500
    /\ http_env.data = Snapshot(PyStr(<<"a">>))
    /\ oldest_wayback_url = None

\* C9: is_valid_domain raises nothing and returns a bool for every value,
\* False exactly for a value that is not a str, is the empty str or holds a
\* space, and True for every other str.
C9_ValidationIsTotalAndExact ==
    (pc = "returned is_valid_domain") =>
        /\ ~raised
        /\ valid \in {PyBool(TRUE), PyBool(FALSE)}
        /\ valid = PyBool(FALSE) <=> Invalid(domain)

C9_Witness ==
    /\ pc = "returned is_valid_domain"
    /\ domain = PyStr(<<"a", "\t">>)
    /\ valid = PyBool(TRUE)
    /\ ~raised

\* C10: in a finished run an "unavailable" line stands only for a None
\* result: an int age (0 and negative included) is printed as "days old",
\* and a str URL (the empty one included) is printed as the archived URL.
C10_UnavailableOnlyForNone ==
    (pc = "done") =>
        /\ domain_age.t = "int"
             => stdout[1] = Line("Domain {domain} is {domain_age} days old.", domain, domain_age)
        /\ oldest_wayback_url.t = "str"
             => stdout[2] = Line("Oldest Wayback Machine URL for {domain}: {oldest_wayback_url}",
                                 domain, oldest_wayback_url)
        /\ stdout[1].fmt = "Could not determine the age of domain {domain}."
             => domain_age = None
        /\ stdout[2].fmt = "Domain {domain} not found in the Wayback Machine."
             => oldest_wayback_url = None

====
